---- MODULE Spec2Model ----
(***************************************************************************)
(* FixtureIo (src/src/lib.rs): a scripted stand-in for a non-blocking byte *)
(* stream.  The builder appends Read / Write / Wait actions to a queue;    *)
(* read and write ask the driver (FixtureIo::state) for the active state,  *)
(* move bytes through its cursor or report would-block / broken pipe / EOF *)
(* and wake the parked reader.                                             *)
(*                                                                         *)
(* Every call (read, write, a builder call) is one atomic action: the      *)
(* fixture is owned by one caller (&mut self).  The timer of a Wait is the *)
(* only thing that moves between calls; it is the action Tick.             *)
(***************************************************************************)
EXTENDS Integers, Sequences, FiniteSets, TLC

\* ---------------------------------------------------------------- bounds
MaxScript == 3
MaxDur == 1
MaxBuf == 2
\* Longest capture given to load, and the latest timestamp of a block.
MaxBlocks == 2
MaxElapsed == 2

\* Payloads of the scripted Read / Write actions, and the buffers a caller
\* offers to write: <<1, 2>> is written whole or as <<1>> then <<2>>.
Payloads == {<<>>, <<1>>, <<1, 2>>}
Sources == {<<1>>, <<2>>, <<1, 2>>}
Durations == 0..MaxDur
\* Lengths of the buffer a caller offers to read: empty, one byte, MaxBuf bytes.
DstLens == {0, 1, MaxBuf}

\* The tasks of the cooperative scheduler that may call into the fixture.
Tasks == {"t1", "t2"}
NoTask == "none"

Min(a, b) == IF a <= b THEN a ELSE b

IsPrefix(a, b) == Len(a) <= Len(b) /\ a = SubSeq(b, 1, Len(a))

\* ------------------------------------------------------------ Action, State
Read(data) == [kind |-> "Read", data |-> data]
Write(data) == [kind |-> "Write", data |-> data]
Wait(dur) == [kind |-> "Wait", dur |-> dur]

None == [kind |-> "None"]
Reading(buf, pos) == [kind |-> "Reading", buf |-> buf, pos |-> pos]
Writing(buf, pos) == [kind |-> "Writing", buf |-> buf, pos |-> pos]
\* Sleep: the ticks still to elapse, and the task the timer notifies when it
\* fires (the task that polled the Sleep last while it was not ready).
Waiting(remaining, waker) ==
  [kind |-> "Waiting", remaining |-> remaining, waker |-> waker]

VARIABLES
  state,      \* FixtureIo.state: the active state, or None
  actions,    \* FixtureIo.actions: the queue of actions not yet promoted
  read_wait,  \* FixtureIo.read_wait: the parked reader, or NoTask
  unparked,   \* the tasks that have been notified (Task::unpark) so far
  script,     \* history: every action the builder appended, in order
  progress,   \* history: per script action, the bytes moved / ticks elapsed
  readOut,    \* history: the bytes returned by all successful reads so far
  ret         \* the last call: its arguments, what it matched on, its result

vars == <<state, actions, read_wait, unparked, script, progress, readOut, ret>>

\* The fixture as the record the methods take and return (self).
Self ==
  [state |-> state, actions |-> actions, read_wait |-> read_wait,
   unparked |-> unparked]

\* FixtureIo::empty
empty ==
  [state |-> None, actions |-> <<>>, read_wait |-> NoTask, unparked |-> {}]

\* The record of a call: op, task and src / dst are the call; head is the
\* active state the driver returned to the call's first access, active the one
\* the call matched on and idx its place in the script; pos0 and pos1 are the
\* cursor of that state before and after the call moved it; kind, n and data
\* are the result; sent counts what the operation sent on a disposal channel;
\* dump is the capture given to load; evicted is the pending reader whose
\* registration the call replaced by another.
NoCall ==
  [op |-> "none", task |-> NoTask, src |-> <<>>, dst |-> 0, head |-> "None",
   active |-> "None", idx |-> 0, pos0 |-> 0, pos1 |-> 0, kind |-> "none",
   n |-> 0, data |-> <<>>, sent |-> 0, dump |-> [ok |-> FALSE, blocks |-> <<>>],
   evicted |-> NoTask]

\* ------------------------------------------------------------------ driver
\* Mutant of has_remaining: off by one, a cursor at its end has remaining.
has_remaining_inclusive(st) == st.pos <= Len(st.buf)

\* Buf::has_remaining of a cursor
has_remaining(st) == st.pos < Len(st.buf)

\* Sleep::poll(): ready once the duration has elapsed
sleep_is_ready(st) == st.remaining = 0

\* Mutant of is_current_action_complete: a Wait counts as complete without
\* its timer being polled.
is_current_action_complete_no_poll(st) ==
  CASE st.kind = "Waiting" -> TRUE
    [] st.kind = "Reading" -> ~has_remaining(st)
    [] st.kind = "Writing" -> ~has_remaining(st)
    [] OTHER -> FALSE

is_current_action_complete(st) ==
  CASE st.kind = "Waiting" -> sleep_is_ready(st)
    [] st.kind = "Reading" -> ~has_remaining(st)
    [] st.kind = "Writing" -> ~has_remaining(st)
    [] OTHER -> FALSE

\* Mutant of promote: a Sleep that is ready when started notifies no one.
promote_no_yield(self, task) ==
  LET a == Head(self.actions)
      rest == Tail(self.actions)
  IN CASE a.kind = "Read" ->
            [self EXCEPT !.state = Reading(a.data, 0), !.actions = rest]
       [] a.kind = "Write" ->
            [self EXCEPT !.state = Writing(a.data, 0), !.actions = rest]
       [] a.kind = "Wait" ->
            IF a.dur = 0
              THEN [self EXCEPT !.state = Waiting(0, NoTask), !.actions = rest]
              ELSE [self EXCEPT !.state = Waiting(a.dur, task), !.actions = rest]

\* The match on actions.pop_front() of FixtureIo::state, the queue not empty.
\* A Wait starts its Sleep and polls it once: a Sleep that is already ready
\* notifies the current task, one that is not registers it with the timer.
promote(self, task) ==
  LET a == Head(self.actions)
      rest == Tail(self.actions)
  IN CASE a.kind = "Read" ->
            [self EXCEPT !.state = Reading(a.data, 0), !.actions = rest]
       [] a.kind = "Write" ->
            [self EXCEPT !.state = Writing(a.data, 0), !.actions = rest]
       [] a.kind = "Wait" ->
            IF a.dur = 0
              THEN [self EXCEPT !.state = Waiting(0, NoTask), !.actions = rest,
                                !.unparked = @ \cup {task}]
              ELSE [self EXCEPT !.state = Waiting(a.dur, task), !.actions = rest]

\* Mutant of self_state: a promoted action that is complete from the start
\* is retired at once and the one after it promoted in the same access.
self_state_skip_complete(self, task) ==
  LET cleared ==
        IF is_current_action_complete(self.state)
          THEN [self EXCEPT !.state = None]
          ELSE self
      first ==
        IF cleared.state.kind = "None" /\ cleared.actions # <<>>
          THEN promote(cleared, task)
          ELSE cleared
  IN IF is_current_action_complete(first.state) /\ first.actions # <<>>
       THEN promote([first EXCEPT !.state = None], task)
       ELSE first

\* FixtureIo::state: retire a complete active state, then promote at most
\* one action.  Polling a Sleep that is not ready registers the caller.
self_state(self, task) ==
  LET polled ==
        IF self.state.kind = "Waiting" /\ ~sleep_is_ready(self.state)
          THEN [self EXCEPT !.state.waker = task]
          ELSE self
      cleared ==
        IF is_current_action_complete(self.state)
          THEN [self EXCEPT !.state = None]
          ELSE polled
  IN IF cleared.state.kind = "None" /\ cleared.actions # <<>>
       THEN promote(cleared, task)
       ELSE cleared

\* Mutant of maybe_wakeup_reader: the waiter check looks at the active state
\* as it is, without an access of the driver.
maybe_wakeup_reader_no_access(self, task) ==
  IF self.state.kind \in {"Reading", "None"} /\ self.read_wait # NoTask
    THEN [self EXCEPT !.unparked = @ \cup {self.read_wait}, !.read_wait = NoTask]
    ELSE self

\* Mutant of maybe_wakeup_reader: the pending reader is notified but its
\* registration stays in the slot.
maybe_wakeup_reader_keep(self, task) ==
  LET s == self_state(self, task)
  IN IF s.state.kind \in {"Reading", "None"} /\ s.read_wait # NoTask
       THEN [s EXCEPT !.unparked = @ \cup {s.read_wait}]
       ELSE s

\* FixtureIo::maybe_wakeup_reader
maybe_wakeup_reader(self, task) ==
  LET s == self_state(self, task)
  IN IF s.state.kind \in {"Reading", "None"} /\ s.read_wait # NoTask
       THEN [s EXCEPT !.unparked = @ \cup {s.read_wait}, !.read_wait = NoTask]
       ELSE s

\* Mutant of poll_read: a not-ready poll does not register the caller.
poll_read_no_register(self, task) ==
  LET s == self_state(self, task)
  IN [ready |-> s.state.kind \in {"Reading", "None"}, self |-> s]

\* Mutant of poll_read: the end of the script is not read-ready.
poll_read_eof_blocks(self, task) ==
  LET s == self_state(self, task)
      ready == s.state.kind = "Reading"
  IN [ready |-> ready,
      self |-> IF ready THEN s ELSE [s EXCEPT !.read_wait = task]]

\* State::is_reading
is_reading(st) == st.kind = "Reading"

\* Io::poll_read: [ready, self]
poll_read(self, task) ==
  LET s == self_state(self, task)
      ready == is_reading(s.state) \/ s.state.kind = "None"
  IN [ready |-> ready,
      self |-> IF ready THEN s ELSE [s EXCEPT !.read_wait = task]]

\* The index in the script of the active state of self (0: none).
ActiveIdx(self) ==
  IF self.state.kind = "None" THEN 0 ELSE Len(script) - Len(self.actions)

\* ---------------------------------------------------------------- io::Read
\* Mutant of copy_to: copies from the start of the buffer, not the position.
copy_to_from_start(st, dst) ==
  LET n == Min(dst, Len(st.buf) - st.pos)
  IN [n |-> n, data |-> SubSeq(st.buf, 1, n),
      st |-> [st EXCEPT !.pos = @ + n]]

\* Mutant of copy_to: the bytes are copied but the cursor stays.
copy_to_no_advance(st, dst) ==
  LET n == Min(dst, Len(st.buf) - st.pos)
  IN [n |-> n, data |-> SubSeq(st.buf, st.pos + 1, st.pos + n), st |-> st]

\* Buf::copy_to(dst) on the Reading cursor: copies min(dst.len(), remaining)
\* bytes from the position and advances the cursor by that count.
copy_to(st, dst) ==
  LET n == Min(dst, Len(st.buf) - st.pos)
  IN [n |-> n, data |-> SubSeq(st.buf, st.pos + 1, st.pos + n),
      st |-> [st EXCEPT !.pos = @ + n]]

read(self, dst, task) ==
  LET p == poll_read(self, task)
      s == self_state(p.self, task)
      call == [NoCall EXCEPT !.op = "read", !.task = task, !.dst = dst,
                             !.head = p.self.state.kind]
  IN IF ~p.ready
       THEN [self |-> p.self,
             ret |-> [call EXCEPT !.kind = "WouldBlock",
                                  !.active = p.self.state.kind,
                                  !.idx = ActiveIdx(p.self)]]
       ELSE CASE s.state.kind = "Reading" ->
                   LET c == copy_to(s.state, dst)
                       moved == [s EXCEPT !.state = c.st]
                   IN [self |-> maybe_wakeup_reader(moved, task),
                       ret |-> [call EXCEPT !.kind = "Ok", !.n = c.n,
                                  !.data = c.data,
                                  !.active = "Reading", !.idx = ActiveIdx(s),
                                  !.pos0 = s.state.pos, !.pos1 = c.st.pos]]
              [] s.state.kind = "None" ->
                   [self |-> s, ret |-> [call EXCEPT !.kind = "Ok"]]
              [] OTHER ->
                   [self |-> s,
                    ret |-> [call EXCEPT !.kind = "Unreachable",
                                         !.active = s.state.kind,
                                         !.idx = ActiveIdx(s)]]

\* --------------------------------------------------------------- io::Write
\* Mutant of expected: the expected bytes are taken from the start.
expected_from_start(st, n) == SubSeq(st.buf, 1, n)

\* &buf.get_ref()[pos..][..n]: the n expected bytes at the position
expected(st, n) == SubSeq(st.buf, st.pos + 1, st.pos + n)

\* Mutant of set_position: the count is taken as the new position.
set_position_abs(st, n) == [st EXCEPT !.pos = n]

\* buf.set_position(pos + n)
set_position(st, n) == [st EXCEPT !.pos = st.pos + n]

write(self, src, task) ==
  LET s == self_state(self, task)
      call == [NoCall EXCEPT !.op = "write", !.task = task, !.src = src,
                             !.head = s.state.kind,
                             !.active = s.state.kind, !.idx = ActiveIdx(s)]
  IN CASE s.state.kind = "Writing" ->
            LET pos == s.state.pos
                n == Min(Len(s.state.buf) - pos, Len(src))
                moved == [s EXCEPT !.state = set_position(s.state, n)]
            IN IF SubSeq(src, 1, n) = expected(s.state, n)
                 THEN [self |-> maybe_wakeup_reader(moved, task),
                       ret |-> [call EXCEPT !.kind = "Ok", !.n = n,
                                            !.pos0 = pos,
                                            !.pos1 = moved.state.pos]]
                 ELSE [self |-> s,
                       ret |-> [call EXCEPT !.kind = "AssertFailed",
                                            !.pos0 = pos, !.pos1 = pos]]
       [] s.state.kind = "None" ->
            [self |-> s, ret |-> [call EXCEPT !.kind = "BrokenPipe"]]
       [] OTHER ->
            [self |-> s, ret |-> [call EXCEPT !.kind = "WouldBlock"]]

\* ----------------------------------------------------------------- actions
Init ==
  /\ state = empty.state
  /\ actions = empty.actions
  /\ read_wait = empty.read_wait
  /\ unparked = empty.unparked
  /\ script = <<>>
  /\ progress = <<>>
  /\ readOut = <<>>
  /\ ret = NoCall

\* The script is built before the first call into the stream.
Building == ret.op = "none" /\ Len(script) < MaxScript

\* A failed assertion (assert_eq!, unreachable!) aborts the test.
Panicked == ret.kind \in {"AssertFailed", "Unreachable"}

push_back(a) ==
  /\ Building
  /\ actions' = Append(actions, a)
  /\ script' = Append(script, a)
  /\ progress' = Append(progress, 0)
  /\ UNCHANGED <<state, read_wait, unparked, readOut, ret>>

then_read == \E data \in Payloads : push_back(Read(data))

then_write == \E data \in Payloads : push_back(Write(data))

then_wait == \E dur \in Durations : push_back(Wait(dur))

\* What a call leaves behind: the fixture, and the history of the cursor it
\* moved (the position reached in the action it matched on).
Return(r) ==
  /\ state' = r.self.state
  /\ actions' = r.self.actions
  /\ read_wait' = r.self.read_wait
  /\ unparked' = r.self.unparked
  /\ ret' = [r.ret EXCEPT !.evicted =
                          IF r.self.read_wait \notin {read_wait, NoTask}
                            THEN read_wait ELSE NoTask]
  /\ progress' = IF r.ret.kind = "Ok" /\ r.ret.idx > 0
                   THEN [progress EXCEPT ![r.ret.idx] = r.ret.pos1]
                   ELSE progress
  /\ readOut' = IF r.ret.op = "read" THEN readOut \o r.ret.data ELSE readOut
  /\ UNCHANGED script

Read_ ==
  /\ ~Panicked
  /\ \E dst \in DstLens, task \in Tasks : Return(read(Self, dst, task))

Write_ ==
  /\ ~Panicked
  /\ \E src \in Sources, task \in Tasks : Return(write(Self, src, task))

\* One tick of the timer of the active Wait; the tick that fires it notifies
\* the task registered with the Sleep.
Elapse ==
  /\ ~Panicked
  /\ state.kind = "Waiting"
  /\ state.remaining > 0
  /\ state' = [state EXCEPT !.remaining = @ - 1]
  /\ unparked' = IF state.remaining = 1 THEN unparked \cup {state.waker}
                                        ELSE unparked
  /\ progress' = [progress EXCEPT ![ActiveIdx(Self)] = @ + 1]
  /\ UNCHANGED <<actions, read_wait, script, readOut>>

Tick == Elapse /\ ret' = [NoCall EXCEPT !.op = "tick"]

Next == then_read \/ then_write \/ then_wait \/ Read_ \/ Write_ \/ Tick

Spec == Init /\ [][Next]_vars

\* ------------------------------------------------------------------- load
\* A block of a capture: its direction, its bytes and the time since the
\* capture began.
Blocks ==
  [direction : {"In", "Out"}, data : Payloads, elapsed : 0..MaxElapsed]

RECURSIVE BlockSeqs(_)
BlockSeqs(n) ==
  IF n = 0 THEN {<<>>}
  ELSE BlockSeqs(n - 1) \cup
       {Append(b, k) : b \in {c \in BlockSeqs(n - 1) : Len(c) = n - 1}, k \in Blocks}

\* What Dump::open finds at the path: nothing it can open, or a capture.
Dumps ==
  {[ok |-> FALSE, blocks |-> <<>>]} \cup
  {[ok |-> TRUE, blocks |-> b] : b \in BlockSeqs(MaxBlocks)}

last_elapsed_out_only(block, last) ==
  IF block.direction = "Out" THEN block.elapsed ELSE last

\* last = block.elapsed(), after a block of either direction.
last_elapsed(block, last) == block.elapsed

\* The loop of load over the blocks from the i-th on.  Duration's subtraction
\* panics when it would go below zero.
RECURSIVE load_blocks(_, _, _, _)
load_blocks(blocks, i, acts, last) ==
  IF i > Len(blocks) THEN [kind |-> "Ok", actions |-> acts]
  ELSE LET block == blocks[i]
       IN IF block.direction = "In"
            THEN load_blocks(blocks, i + 1, Append(acts, Write(block.data)),
                             last_elapsed(block, last))
          ELSE IF block.elapsed < last
            THEN [kind |-> "Overflow", actions |-> <<>>]
          ELSE load_blocks(blocks, i + 1,
                           acts \o <<Wait(block.elapsed - last), Read(block.data)>>,
                           last_elapsed(block, last))

load(dump) ==
  IF ~dump.ok THEN [kind |-> "Err", actions |-> <<>>]
  ELSE load_blocks(dump.blocks, 1, empty.actions, 0)

\* FixtureIo::load in place of FixtureIo::empty and the builder calls.
Load ==
  /\ ret.op = "none" /\ script = <<>>
  /\ \E dump \in Dumps :
       LET r == load(dump)
       IN /\ actions' = r.actions
          /\ script' = r.actions
          /\ progress' = [i \in 1..Len(r.actions) |-> 0]
          /\ ret' = [NoCall EXCEPT !.op = "load", !.kind = r.kind, !.dump = dump]
  /\ UNCHANGED <<state, read_wait, unparked, readOut>>

SpecLoad == Init /\ [][Load]_vars

\* ------------------------------------------------------- end of the fixture
\* The fixture has been destroyed.
Dropped == ret.op = "drop"

\* The owner drops the fixture, at any point of the script.  FixtureIo has no
\* Drop impl and its fields (state, actions, timer, read_wait) hold no sender:
\* its fields are released, the parked Task is dropped without being notified,
\* and nothing is sent.
Drop ==
  /\ ~Dropped
  /\ state' = None
  /\ actions' = <<>>
  /\ read_wait' = NoTask
  /\ ret' = [NoCall EXCEPT !.op = "drop"]
  /\ UNCHANGED <<unparked, script, progress, readOut>>

NextDrop == (~Dropped /\ Next) \/ Drop

SpecDrop == Init /\ [][NextDrop]_vars

\* ------------------------------------------------- one cooperative consumer
\* The fixture driven by a single task of a cooperative scheduler.  The task
\* follows the script: it writes bytes the next pending Write expects, reads
\* with a non-empty buffer otherwise, and after a would-block it is polled
\* again only once it has been notified; it stops at end-of-stream.  Here
\* unparked holds the notifications not yet consumed: the scheduler clears
\* the task's notification when it polls the task again.
Consumer == "t1"

\* The first Read or Write of the script with bytes still to move (0: none).
NextPending ==
  LET S == {i \in 1..Len(script) :
              /\ script[i].kind \in {"Read", "Write"}
              /\ progress[i] < Len(script[i].data)}
  IN IF S = {} THEN 0 ELSE CHOOSE i \in S : \A j \in S : i <= j

\* The consumer has seen end-of-stream.
CoopDone == ret.op = "read" /\ ret.kind = "Ok" /\ ret.n = 0

CoopParked == ret.kind = "WouldBlock"

CoopStep ==
  /\ ~Panicked
  /\ ~CoopDone
  /\ CoopParked => Consumer \in unparked
  /\ LET polled == IF CoopParked
                     THEN [Self EXCEPT !.unparked = @ \ {Consumer}]
                     ELSE Self
         k == NextPending
     IN IF k > 0 /\ script[k].kind = "Write"
          THEN \E src \in Sources :
                 /\ IsPrefix(src, SubSeq(script[k].data, progress[k] + 1,
                                         Len(script[k].data)))
                 /\ Return(write(polled, src, Consumer))
          ELSE \E dst \in DstLens \ {0} : Return(read(polled, dst, Consumer))

\* The timer elapsing between two calls of the consumer.
CoopTick == Elapse /\ UNCHANGED ret

CoopNext == then_read \/ then_write \/ then_wait \/ CoopStep \/ CoopTick

\* The consumer can be polled: it is not parked, or it has been notified.
CoopRunnable ==
  /\ ~Panicked
  /\ ~CoopDone
  /\ CoopParked => Consumer \in unparked

\* The timer of the active Wait is running.
TimerRunning == ~Panicked /\ state.kind = "Waiting" /\ state.remaining > 0

\* The scheduler polls a runnable task, and a started timer keeps running:
\* weak fairness of CoopStep and of CoopTick, with the enabling conditions
\* of the two actions written out.
CoopFairness ==
  /\ []<>(~CoopRunnable) \/ []<><<CoopStep>>_vars
  /\ []<>(~TimerRunning) \/ []<><<CoopTick>>_vars

SpecCoop == Init /\ [][CoopNext]_vars /\ CoopFairness

\* ------------------------------------------------------- what the claims use

\* The payloads of the Read actions of a script, concatenated in script order.
RECURSIVE ReadPayloads(_)
ReadPayloads(s) ==
  IF s = <<>> THEN <<>>
  ELSE (IF Head(s).kind = "Read" THEN Head(s).data ELSE <<>>)
         \o ReadPayloads(Tail(s))

\* The bytes handed out of the first k actions, by the positions reached.
RECURSIVE Delivered(_)
Delivered(k) ==
  IF k = 0 THEN <<>>
  ELSE Delivered(k - 1)
         \o (IF script[k].kind = "Read"
               THEN SubSeq(script[k].data, 1, progress[k]) ELSE <<>>)

\* An action of the script is complete: every byte moved, every tick elapsed.
Size(a) == IF a.kind = "Wait" THEN a.dur ELSE Len(a.data)
Completed(i) == progress[i] = Size(script[i])

\* The last call was a write that found the active state Writing; what the
\* script expects of it.
WriteOnWriting == ret.op = "write" /\ ret.active = "Writing"
WriteBuf == script[ret.idx].data
WriteCount == Min(Len(ret.src), Len(WriteBuf) - ret.pos0)
WriteMatches ==
  SubSeq(ret.src, 1, WriteCount)
    = SubSeq(WriteBuf, ret.pos0 + 1, ret.pos0 + WriteCount)

\* ------------------------------------------------------------------ claims
\* C1: the bytes returned by all successful reads so far are a prefix of the
\* script's Read payloads concatenated in script order, and a read returns
\* only the next unread bytes of the Read action that is the active state.
C1_ReadsReproducePayloads ==
  /\ IsPrefix(readOut, ReadPayloads(script))
  /\ readOut = Delivered(Len(script))
  /\ (ret.op = "read" /\ ret.n > 0) =>
       /\ ret.kind = "Ok" /\ ret.active = "Reading"
       /\ script[ret.idx].kind = "Read"
       /\ ret.data = SubSeq(script[ret.idx].data, ret.pos0 + 1, ret.pos0 + ret.n)
       /\ progress[ret.idx] = ret.pos0 + ret.n

\* A later Read action is being returned piecewise after an earlier one.
C1_Witness ==
  /\ ret.op = "read" /\ ret.kind = "Ok" /\ ret.n = 1 /\ ret.pos0 = 1
  /\ Len(readOut) = 3

\* C2: a write whose first n = min(len(src), remaining) bytes equal the
\* expected bytes at the position returns n and advances the position by n;
\* bytes of src beyond n are not checked.
C2_MatchingWriteAdvances ==
  (WriteOnWriting /\ WriteMatches) =>
    /\ ret.kind = "Ok"
    /\ ret.n = WriteCount
    /\ ret.pos1 = ret.pos0 + WriteCount
    /\ progress[ret.idx] = ret.pos0 + WriteCount
    /\ ret.pos1 < Len(WriteBuf) => state = Writing(WriteBuf, ret.pos1)

\* "g" after "pin": the second piece of a payload is accepted at position 1.
C2_Witness ==
  /\ WriteOnWriting /\ ret.kind = "Ok"
  /\ ret.pos0 = 1 /\ ret.src = <<2>> /\ ret.n = 1

\* C3: a write in which one of the first min(len(src), remaining) bytes
\* differs from the expected byte fails the assertion: no count, no I/O
\* error, and the position stays.
C3_MismatchIsFatal ==
  (WriteOnWriting /\ ~WriteMatches) =>
    /\ ret.kind = "AssertFailed"
    /\ ret.n = 0
    /\ state = Writing(WriteBuf, ret.pos0)
    /\ progress[ret.idx] = ret.pos0

\* A divergence in the middle of a payload.
C3_Witness == WriteOnWriting /\ ret.kind = "AssertFailed" /\ ret.pos0 = 1

\* The cursor or timer of an active state has reached its end.
Finished(st) ==
  CASE st.kind \in {"Reading", "Writing"} -> st.pos = Len(st.buf)
    [] st.kind = "Waiting" -> st.remaining = 0
    [] OTHER -> FALSE

\* No active state and an empty queue.
Exhausted == state.kind = "None" /\ actions = <<>>

\* The last action of the script has completed (or there was none).
ScriptOver == actions = <<>> /\ (state.kind = "None" \/ Finished(state))

\* The actions of the script before place k that block a reader.
BlockersBefore(k) ==
  {i \in 1..(k - 1) : script[i].kind \in {"Write", "Wait"}}

\* C4: a read that finds the head of the script (the active state the driver
\* returns) to be a Write or a Wait returns would-block, registers the calling
\* task as the pending reader, returns no bytes and moves no position; and a
\* read returns data only when every Write before the data has been written
\* in full and every Wait before it has fired.
C4_ReadBlocksOnWriteOrWait ==
  [][ /\ (ret'.op = "read" /\ ret'.head \in {"Writing", "Waiting"}) =>
          /\ ret'.kind = "WouldBlock"
          /\ ret'.n = 0 /\ ret'.data = <<>>
          /\ read_wait' = ret'.task
          /\ progress' = progress /\ readOut' = readOut
          /\ state'.kind = ret'.head
          /\ state'.kind = "Writing" => state'.pos = progress[ret'.idx]
      /\ (ret'.op = "read" /\ ret'.n > 0) =>
          \A i \in BlockersBefore(ret'.idx) : Completed(i)
     ]_vars

\* A reader parks on a Write of which one byte has been written.
C4_Witness ==
  /\ ret.op = "read" /\ ret.kind = "WouldBlock" /\ ret.head = "Writing"
  /\ state.kind = "Writing" /\ state.pos = 1
  /\ read_wait = ret.task

\* C5: a write that finds the head of the script to be a Read or a Wait
\* returns would-block, accepts no byte, moves no position and leaves every
\* later action in the queue; a write is accepted only by the Write that is
\* the head, after every action before it has completed.
C5_WritesInScriptOrder ==
  [][ /\ (ret'.op = "write" /\ ret'.head \in {"Reading", "Waiting"}) =>
          /\ ret'.kind = "WouldBlock" /\ ret'.n = 0
          /\ progress' = progress
          /\ state'.kind = ret'.head
          /\ actions' = SubSeq(script, ret'.idx + 1, Len(script))
          /\ Len(actions) - Len(actions') <= 1
      /\ (ret'.op = "write" /\ ret'.kind = "Ok") =>
          /\ script[ret'.idx].kind = "Write"
          /\ \A i \in 1..(ret'.idx - 1) : Completed(i)
     ]_vars

\* A write blocks on a Read although the next action is a Write of its bytes.
C5_Witness ==
  /\ ret.op = "write" /\ ret.kind = "WouldBlock" /\ ret.head = "Reading"
  /\ ret.idx < Len(script)
  /\ script[ret.idx + 1] = Write(ret.src)

\* C6: a write issued when the script is exhausted, or when its last action
\* has completed, returns broken pipe; broken pipe is returned only at
\* exhaustion, and exhaustion is final once the stream is in use: so after a
\* broken pipe every later write returns broken pipe.
C6_BrokenPipeIsPermanent ==
  [][ /\ (ret'.op = "write" /\ ScriptOver) => ret'.kind = "BrokenPipe"
      /\ ret'.kind = "BrokenPipe" => Exhausted'
      /\ (Exhausted /\ ret.op # "none") => Exhausted'
     ]_vars

\* "ping" has been written in full and a further write is refused.
C6_Witness ==
  /\ ret.op = "write" /\ ret.kind = "BrokenPipe"
  /\ script = <<Write(<<1, 2>>)>> /\ progress = <<2>>

\* C7: a read issued when the script is exhausted, or when its last action
\* has completed, is read-ready and returns Ok(0), never would-block.
C7_ReadAtEndIsEof ==
  [][(ret'.op = "read" /\ ScriptOver) =>
        /\ ret'.head = "None"
        /\ ret'.kind = "Ok" /\ ret'.n = 0 /\ ret'.data = <<>>
        /\ Exhausted'
     ]_vars

\* End-of-stream after a script of three actions has run to its end.
C7_Witness ==
  /\ ret.op = "read" /\ ret.kind = "Ok" /\ ret.n = 0 /\ ret.dst > 0
  /\ Exhausted /\ Len(script) = 3
  /\ \A i \in 1..3 : Size(script[i]) > 0 /\ Completed(i)

\* Place k of the script is a Wait of a positive duration followed by a Read.
WaitThenRead(k) ==
  /\ k < Len(script)
  /\ script[k].kind = "Wait" /\ script[k].dur > 0
  /\ script[k + 1].kind = "Read"

\* C8: for a Wait(d), d > 0, followed by Read(x): a read that finds the Wait
\* unfinished returns would-block; no byte of an action after the Wait moves
\* before the timer has fired; and the first read issued once the timer has
\* fired succeeds, with the bytes of x when x is not empty.
C8_WaitGatesRead ==
  [][\A k \in 1..Len(script) : WaitThenRead(k) =>
       /\ (ret'.op = "read" /\ state.kind = "Waiting" /\ ActiveIdx(Self) = k
             /\ state.remaining > 0) => ret'.kind = "WouldBlock"
       /\ progress'[k] < script[k].dur =>
             \A j \in (k + 1)..Len(script) : progress'[j] = 0
       /\ (ret'.op = "read" /\ state.kind = "Waiting" /\ ActiveIdx(Self) = k
             /\ state.remaining = 0) =>
             /\ ret'.kind = "Ok"
             /\ Len(script[k + 1].data) > 0 =>
                  /\ ret'.idx = k + 1
                  /\ ret'.data = SubSeq(script[k + 1].data, 1,
                                        Min(ret'.dst, Len(script[k + 1].data)))
     ]_vars

\* C9: a read that has passed its readiness check never finds the active
\* state to be Writing or Waiting: unreachable!() is never reached.
C9_UnreachableNeverReached == ret.kind # "Unreachable"

\* Every action of the script moves a byte or waits a tick.
NoEmptyAction == \A i \in 1..Len(script) : Size(script[i]) > 0

\* C10: on return from a read or a write, no reader remains registered while
\* the active state is Reading or the script is exhausted (the waiter check
\* has run after every promotion and every end-of-stream).  Stated for the
\* scripts without an empty payload or a zero Wait, where it fails already.
C10_NoReaderParkedWhenReadable ==
  (NoEmptyAction /\ ret.op \in {"read", "write"} /\ ~Panicked) =>
    ~(read_wait # NoTask /\ (state.kind = "Reading" \/ Exhausted))

\* The script starts with a zero Wait followed by a Read, and is in use.
ZeroWaitThenRead ==
  /\ ret.op # "none"
  /\ Len(script) >= 2
  /\ script[1] = Wait(0)
  /\ script[2].kind = "Read"

\* C11: a call that promotes a Wait whose Sleep is ready at once notifies the
\* calling task in that call; so with a script Wait(0), Read(x) the
\* cooperative consumer, polled again only when notified, receives all of x.
C11_ZeroWaitNeverStalls ==
  /\ [][(Len(actions') < Len(actions) /\ state'.kind = "Waiting"
           /\ script[ActiveIdx(Self)'].dur = 0) => ret'.task \in unparked']_vars
  /\ ZeroWaitThenRead ~> (Len(script) >= 2 /\ Completed(2))

\* Both bytes of x have been read behind the zero Wait.
C11_Witness ==
  /\ ZeroWaitThenRead
  /\ script[2].data = <<1, 2>> /\ progress[2] = 2 /\ readOut = <<1, 2>>

\* C12: the disposal signal is sent exactly once, when the fixture is
\* destroyed (whether or not the script has completed), and never before.
C12_DisposalSentOnceAtDrop ==
  /\ Dropped => ret.sent = 1
  /\ ~Dropped => ret.sent = 0

\* The elapsed time of the block before the i-th (zero before the first).
PrevElapsed(blocks, i) == IF i = 1 THEN 0 ELSE blocks[i - 1].elapsed

\* A Wait-producing block that is earlier than the block before it.
OutOfOrder(blocks) ==
  \E i \in 1..Len(blocks) :
    blocks[i].direction = "Out" /\ blocks[i].elapsed < PrevElapsed(blocks, i)

\* The number of actions the blocks before the i-th stand for.
Offset(blocks, i) ==
  (i - 1) + Cardinality({j \in 1..(i - 1) : blocks[j].direction = "Out"})

\* C13: load translates a capture block by block, in order: an In block is one
\* Write of its bytes, an Out block is a Wait of its elapsed time minus that of
\* the block before it (of either direction, zero before the first) followed
\* by a Read of its bytes.
C13_LoadTranslatesBlocks ==
  ret.op = "load" =>
    LET blocks == ret.dump.blocks
    IN /\ (ret.dump.ok /\ ~OutOfOrder(blocks)) => ret.kind = "Ok"
       /\ ret.kind = "Ok" =>
            /\ Len(script) = Offset(blocks, Len(blocks) + 1)
            /\ actions = script /\ state = None
            /\ \A i \in 1..Len(blocks) :
                 LET o == Offset(blocks, i)
                 IN IF blocks[i].direction = "In"
                      THEN script[o + 1] = Write(blocks[i].data)
                      ELSE /\ script[o + 1] =
                                Wait(blocks[i].elapsed - PrevElapsed(blocks, i))
                           /\ script[o + 2] = Read(blocks[i].data)

C13_Witness ==
  /\ ret.op = "load" /\ ret.kind = "Ok"
  /\ ret.dump.blocks =
       << [direction |-> "In", data |-> <<1, 2>>, elapsed |-> 1],
          [direction |-> "Out", data |-> <<1>>, elapsed |-> 2] >>
  /\ script = << Write(<<1, 2>>), Wait(1), Read(<<1>>) >>

\* C14: load of a capture with out-of-order timestamps yields no fixture and
\* reports the failure as a recoverable error result, not as a fatal abort.
C14_OutOfOrderIsRecoverable ==
  (ret.op = "load" /\ ret.dump.ok /\ OutOfOrder(ret.dump.blocks)) =>
    ret.kind = "Err" /\ script = <<>>

\* The actions taken off the queue so far.
Removed == Len(script) - Len(actions)

\* The fixture as a driver access can find it: between two calls, or inside a
\* call that has just moved the cursor of the active state to its end.
AccessPoints ==
  {Self} \cup
  (IF state.kind \in {"Reading", "Writing"}
     THEN {[Self EXCEPT !.state.pos = Len(state.buf)]}
     ELSE {})

\* C15: the queue is strict FIFO: the actions still queued are the tail of
\* the script, the ones taken off were promoted one by one in script order
\* (all but the active one are complete, none later is touched), the active
\* state is the last one taken off; an access of the driver promotes at most
\* one action, returns none only when the queue is empty, and from then on
\* every access returns none.
C15_DriverIsFifo ==
  /\ actions = SubSeq(script, Removed + 1, Len(script))
  /\ \A i \in 1..Len(script) :
       /\ i < Removed => Completed(i)
       /\ i > Removed => progress[i] = 0
  /\ state.kind = "None" => (ret.op = "none" \/ \A i \in 1..Removed : Completed(i))
  /\ state.kind # "None" =>
       /\ Removed >= 1
       /\ LET a == script[Removed]
          IN CASE state.kind = "Reading" ->
                    a = Read(state.buf) /\ state.pos = progress[Removed]
               [] state.kind = "Writing" ->
                    a = Write(state.buf) /\ state.pos = progress[Removed]
               [] OTHER ->
                    a.kind = "Wait" /\ state.remaining = a.dur - progress[Removed]
  /\ \A S \in AccessPoints, t \in Tasks :
       LET s == self_state(S, t)
       IN /\ \/ s.actions = S.actions
             \/ S.actions # <<>> /\ s.actions = Tail(S.actions)
          /\ Len(S.actions) - Len(s.actions) \in {0, 1}
          /\ s.actions # S.actions => s.state.kind # "None"
          /\ s.state.kind = "None" => s.actions = <<>>
          /\ (S.state.kind = "None" /\ S.actions = <<>>) => s = S

\* Two actions have been promoted in order and the third is still queued.
C15_Witness ==
  /\ Len(script) = 3 /\ Len(actions) = 1
  /\ script[1] = Read(<<1>>) /\ Completed(1) /\ readOut = <<1>>
  /\ state = Writing(<<1, 2>>, 1)

\* C16: a read that finds the active state Reading with r bytes remaining
\* returns min(len(dst), r), hands out exactly these bytes from the position,
\* moves the position forward by that count and never past the end, and
\* touches no other action: the bytes of one read come from one Read action,
\* also when dst has room left and the next action is a Read.
C16_ReadStaysInOneAction ==
  [][(ret'.op = "read" /\ ret'.active = "Reading") =>
       LET k == ret'.idx
           buf == script[k].data
           r == Len(buf) - progress[k]
       IN /\ script[k].kind = "Read"
          /\ ret'.kind = "Ok"
          /\ ret'.pos0 = progress[k]
          /\ ret'.n = Min(ret'.dst, r)
          /\ ret'.data = SubSeq(buf, progress[k] + 1, progress[k] + ret'.n)
          /\ readOut' = readOut \o ret'.data
          /\ progress'[k] = progress[k] + ret'.n
          /\ progress'[k] >= progress[k] /\ progress'[k] <= Len(buf)
          /\ \A i \in 1..Len(script) : i # k => progress'[i] = progress[i]
          /\ \A i \in (k + 1)..Len(script) : progress'[i] = 0
     ]_vars

\* A read with room for two bytes returned the one byte of the first Read and
\* nothing of the Read that follows it.
C16_Witness ==
  /\ ret.op = "read" /\ ret.kind = "Ok" /\ ret.dst = 2 /\ ret.n = 1
  /\ Len(script) >= 2
  /\ script[1] = Read(<<1>>) /\ script[2] = Read(<<1, 2>>)
  /\ ret.idx = 1 /\ progress[1] = 1 /\ progress[2] = 0
  /\ readOut = <<1>> /\ state = Reading(<<1, 2>>, 0)

\* C17: the waiter registry is one slot.  A read that is not ready puts its
\* caller into the slot in place of any earlier registrant, who is not woken;
\* nothing else registers; the slot is emptied only by waking its holder, and
\* a wake-up of the holder takes the registration out of the slot, so that a
\* registration is woken at most once.
C17_RegistryIsOneSlot ==
  [][LET woken == unparked' \ unparked
     IN /\ ret'.op \in {"read", "write"} =>
             /\ woken \subseteq {read_wait, ret'.task}
             /\ IF ret'.op = "read" /\ ret'.kind = "WouldBlock"
                  THEN /\ read_wait' = ret'.task
                       /\ read_wait \notin {NoTask, ret'.task} =>
                            read_wait \notin woken
                  ELSE read_wait' \in {read_wait, NoTask}
             /\ (read_wait # NoTask /\ read_wait' = NoTask) =>
                  read_wait \in unparked'
             /\ (read_wait \in woken /\ read_wait # ret'.task) =>
                  read_wait' = NoTask
        /\ ret'.op \notin {"read", "write"} =>
             /\ read_wait' = read_wait
             /\ read_wait \in woken => state.kind = "Waiting" /\ state.waker = read_wait
    ]_vars

\* t2 has taken the slot from t1, and t1 has not been woken.
C17_Witness ==
  /\ ret.op = "read" /\ ret.kind = "WouldBlock" /\ ret.task = "t2"
  /\ ret.evicted = "t1" /\ read_wait = "t2" /\ "t1" \notin unparked

\* Nothing can happen any more: the consumer has finished, has panicked or is
\* parked without a notification, and no timer is running.
CoopQuiet == ~CoopRunnable /\ ~TimerRunning

\* C18: a cooperative consumer (it follows the script and retries a
\* would-block only after being notified) never stalls: when nothing can
\* happen any more, every action of the script is complete, no assertion has
\* failed and its last read has returned end-of-stream.
C18_ConsumerNeverStalls ==
  CoopQuiet =>
    /\ ~Panicked
    /\ \A i \in 1..Len(script) : Completed(i)
    /\ CoopDone

\* C19: a read into a non-empty destination returns Ok(0) only when the
\* script is exhausted: a zero count always means end-of-stream.
C19_ZeroCountMeansEof ==
  (ret.op = "read" /\ ret.dst > 0 /\ ret.kind = "Ok" /\ ret.n = 0) => Exhausted

\* The last call was a successful read or write that moved the last byte of
\* the Read / Write it matched on.
ConsumedLastByte ==
  /\ ret.op \in {"read", "write"} /\ ret.kind = "Ok"
  /\ ret.idx > 0 /\ ret.n > 0
  /\ ret.pos1 = Len(script[ret.idx].data)

\* C20: the call that moves the last byte of the active Read / Write retires
\* it and promotes the next action before it returns: on return the next
\* action of the script, if there is one, is the active state at its start (a
\* Wait has its timer running for the caller, or has notified the caller when
\* its duration is zero), and without one the script is exhausted.
C20_NextStepPromotedEagerly ==
  ConsumedLastByte =>
    IF ret.idx = Len(script) THEN Exhausted
    ELSE LET a == script[ret.idx + 1]
         IN /\ Removed = ret.idx + 1
            /\ progress[ret.idx + 1] = 0
            /\ CASE a.kind = "Read" -> state = Reading(a.data, 0)
                 [] a.kind = "Write" -> state = Writing(a.data, 0)
                 [] OTHER ->
                      IF a.dur = 0
                        THEN state = Waiting(0, NoTask) /\ ret.task \in unparked
                        ELSE state = Waiting(a.dur, ret.task)

\* A write has completed the Write before a Wait, and the timer of the Wait
\* is running on return.
C20_Witness ==
  /\ ConsumedLastByte /\ ret.op = "write" /\ ret.idx = 1
  /\ Len(script) = 3
  /\ script[2] = Wait(1) /\ state = Waiting(1, ret.task)
  /\ script[3].kind = "Read" /\ actions = <<script[3]>>

====
